---- MODULE Spec2Model ----
(***************************************************************************)
(* A model of components/iota_dials.py: the DIALS pipeline of IOTA.        *)
(*                                                                         *)
(*   Spec         Integrator.run, one run of the pipeline on one image     *)
(*   SpecBravais  IOTADialsProcessor.refine_bravais_settings, called on    *)
(*                every bounded candidate list                             *)
(*   SpecReindex  IOTADialsProcessor.reindex, called on every bounded      *)
(*                reflection list and change of basis                      *)
(*                                                                         *)
(* The DIALS engines (find_spots, index, refine, integrate, the candidate  *)
(* generation) are outside the repository: each is a nondeterministic      *)
(* choice between raising and returning a value of a bounded set.          *)
(***************************************************************************)
EXTENDS Integers, Sequences, FiniteSets, TLC

VARIABLES
    pc,          \* Integrator.run: the next statement group to execute
    params,      \* the configuration and the caller's arguments (never written)
    fail,        \* self.fail
    e,           \* the local e of run: the exception bound last
    calls,       \* the processor / selector methods invoked so far, in order
    raised,      \* the try blocks that raised: the stages of run, and the
                 \* "generation" call of refine_bravais_settings (history)
    crystal,     \* self.experiments[0].crystal
    indexed,     \* self.indexed["miller_index"]
    from_index,  \* crystal and indices as index() returned them (history)
    to_refine,   \* crystal and indices as refine() received them (history)
    frame,       \* self.frame: <<>> is None
    final,       \* self.final, the caller's result accumulator
    artifact,    \* what is stored at phil.output.integration_pickle
    int_log,     \* whether the log file self.int_log has been written
    Lfat,        \* the candidate list of the generation engine
    engine,      \* how the generation engine ends (raises, state it leaves)
    solution,    \* what refine_bravais_settings returned: <<>> is None
    m_pc,        \* position of a direct method call (SpecBravais, SpecReindex,
                 \* SpecFilter, SpecTriage)
    m_in,        \* the arguments of that call, as they were passed (history)
    m_self,      \* the object of that call (a Selector, a Triage)
    m_ret,       \* what that call returned
    log_entry,   \* the log text run returns
    output       \* what run printed inside util.Capturing (the log file's lines)

vars == <<pc, params, fail, e, calls, raised, crystal, indexed, from_index,
          to_refine, frame, final, artifact, int_log, Lfat, engine, solution,
          m_pc, m_in, m_self, m_ret, log_entry, output>>

None == "None"

(***************************************************************************)
(* Bounds.                                                                 *)
(***************************************************************************)
MaxCands == 3       \* longest candidate list of SpecBravais
MaxRefl == 2        \* longest reflection list of SpecReindex
MaxRunCands == 2    \* longest candidate list inside a run
MaxRunRefl == 1     \* longest reflection list inside a run

SeqsUpTo(S, n) == UNION {[1..k -> S] : k \in 0..n}

Range(s) == {s[i] : i \in DOMAIN s}

(***************************************************************************)
(* refine_bravais_settings                                                 *)
(***************************************************************************)
lattice_to_sg_number ==
    [aP |-> 1, mP |-> 3, mC |-> 5, oP |-> 16, oC |-> 20, oF |-> 22,
     oI |-> 23, tP |-> 75, tI |-> 79, hP |-> 143, hR |-> 146, cP |-> 195,
     cF |-> 196, cI |-> 197]

\* The lattice families the candidates of the model carry: Bravais symbols
\* whose alphabetical order differs from their order by space-group number.
Families == {"aP", "mP", "oP", "cI"}

AngDiffs == {0, 1}

\* Changes of basis, as (matrix rows, common denominator):
\*   a,b,c            the identity
\*   b,a,-c           an axis swap: every index stays integral
\*   a+b,-a+b,2c / 2  halves h+k and k-h; non-integral when h+k is odd
CbOps == {"a,b,c", "b,a,-c", "1/2*a+1/2*b,-1/2*a+1/2*b,c"}

Solutions(ops) ==
    [bravais : Families, recommended : BOOLEAN,
     max_angular_difference : AngDiffs, cb_op_inp_best : ops]

\* Crystal models: what index() can produce, what a solution carries as
\* refined_crystal, and what the generation engine may leave behind.
NoCrystal == [lattice |-> None, cell |-> None]

TriclinicCrystals ==
    {[lattice |-> "aP", cell |-> "indexed 1"],
     [lattice |-> "aP", cell |-> "indexed 2"]}

KnownCrystal == [lattice |-> "target", cell |-> "indexed 1"]

refined_crystal(s) == [lattice |-> s.bravais, cell |-> "refined"]

EngineLeaves ==
    TriclinicCrystals \cup {[lattice |-> "mP", cell |-> "half-refined"]}

\* How the generation engine can end: it returns (the crystal model as it
\* was), or it raises and leaves the crystal model in any state.
EngineReturns == [raises |-> FALSE, leaves |-> NoCrystal]

EngineOutcomes ==
    {EngineReturns} \cup {[raises |-> TRUE, leaves |-> c] : c \in EngineLeaves}

Lfat_recommended(L) == SelectSeq(L, LAMBDA s : s.recommended)

possible_bravais_settings(recommended) ==
    {recommended[i].bravais : i \in DOMAIN recommended}

filtered_lattices(possible) ==
    {key \in DOMAIN lattice_to_sg_number : key \in possible}

highest_sym_lattice_lowest(filtered) ==
    CHOOSE k \in filtered :
        \A j \in filtered : lattice_to_sg_number[k] <= lattice_to_sg_number[j]

\* max(filtered_lattices, key=filtered_lattices.get); the numbers of the
\* table are distinct, so the maximum is unique.
highest_sym_lattice(filtered) ==
    CHOOSE k \in filtered :
        \A j \in filtered : lattice_to_sg_number[j] <= lattice_to_sg_number[k]

\* [s for s in Lfat if s["bravais"] == highest_sym_lattice]: taken from the
\* whole list Lfat, not from Lfat_recommended.
highest_sym_solutions(L, lattice) ==
    SelectSeq(L, LAMBDA s : s.bravais = lattice)

\* sorted(sols, key=max_angular_difference)[0] (a stable sort: of equal keys
\* the first of the list), or the sole element.
highest_sym_solution(sols) ==
    LET i == CHOOSE i \in DOMAIN sols :
                 /\ \A j \in DOMAIN sols :
                        sols[i].max_angular_difference
                            <= sols[j].max_angular_difference
                 /\ \A j \in 1..(i - 1) :
                        sols[j].max_angular_difference
                            > sols[i].max_angular_difference
    IN  sols[i]

except_reset_none(crystal_P1, left) == left

\* The except branch of the generation call: expt.crystal = crystal_P1.
except_reset(crystal_P1, left) == crystal_P1

\* refine_bravais_settings(reflections, experiments), with the crystal model
\* cr on entry, the engine ending as eng and returning L when it returns.
\* Result: what is returned (<<>>: None), the crystal model on exit, and
\* whether the method raised (max() of an empty dictionary: ValueError).
RefineBravaisSettings(cr, eng, L) ==
    LET crystal_P1 == cr
        rec == Lfat_recommended(L)
        filtered == filtered_lattices(possible_bravais_settings(rec))
    IN  IF eng.raises
        THEN [ret |-> <<>>, crystal |-> except_reset(crystal_P1, eng.leaves),
              raises |-> FALSE]
        ELSE IF Len(rec) = 0
        THEN [ret |-> <<>>, crystal |-> cr, raises |-> FALSE]
        ELSE IF filtered = {}
        THEN [ret |-> <<>>, crystal |-> cr, raises |-> TRUE]
        ELSE [ret |-> <<highest_sym_solution(
                          highest_sym_solutions(L, highest_sym_lattice(filtered)))>>,
              crystal |-> cr, raises |-> FALSE]

(***************************************************************************)
(* reindex                                                                 *)
(***************************************************************************)
\* sgtbx.change_of_basis_op(cb_op): the rows give the numerators of the new
\* h, k, l as integer combinations of the old ones, den the denominator.
change_of_basis_op(cb_op) ==
    CASE cb_op = "a,b,c" ->
             [rows |-> <<<<1, 0, 0>>, <<0, 1, 0>>, <<0, 0, 1>>>>, den |-> 1]
      [] cb_op = "b,a,-c" ->
             [rows |-> <<<<0, 1, 0>>, <<1, 0, 0>>, <<0, 0, -1>>>>, den |-> 1]
      [] cb_op = "1/2*a+1/2*b,-1/2*a+1/2*b,c" ->
             [rows |-> <<<<1, 1, 0>>, <<-1, 1, 0>>, <<0, 0, 2>>>>, den |-> 2]

Numerators(op, hkl) ==
    [r \in 1..3 |->
        op.rows[r][1] * hkl[1] + op.rows[r][2] * hkl[2] + op.rows[r][3] * hkl[3]]

Integral(op, hkl) == \A r \in 1..3 : Numerators(op, hkl)[r] % op.den = 0

\* change_of_basis_op.apply_results_in_non_integral_indices(miller_indices):
\* the positions of the reflections whose transformed index is non-integral.
apply_results_in_non_integral_indices(op, miller_indices) ==
    {i \in DOMAIN miller_indices : ~Integral(op, miller_indices[i])}

\* sel = flex.bool(size, True); sel.set_selected(non_integral_indices, False)
sel_mask(miller_indices, non_integral_indices) ==
    [i \in DOMAIN miller_indices |-> i \notin non_integral_indices]

Rank(mask, i) == Cardinality({j \in 1..i : mask[j]})

\* miller_indices.select(sel)
select(miller_indices, mask) ==
    [r \in 1..Rank(mask, Len(miller_indices)) |->
        miller_indices[CHOOSE i \in DOMAIN miller_indices :
                           mask[i] /\ Rank(mask, i) = r]]

\* change_of_basis_op.apply(indices), on indices that stay integral
apply(op, indices) ==
    [i \in DOMAIN indices |->
        [r \in 1..3 |-> Numerators(op, indices[i])[r] \div op.den]]

\* column.set_selected(mask, values): the selected positions take the values
\* in order.
set_selected(column, mask, values) ==
    [i \in DOMAIN column |->
        IF mask[i] THEN values[Rank(mask, i)] ELSE column[i]]

set_selected_value_skipped(column, mask, value) == column

\* column.set_selected(mask, value): the selected positions take one value.
set_selected_value(column, mask, value) ==
    [i \in DOMAIN column |-> IF mask[i] THEN value ELSE column[i]]

\* Where a call of reindex can raise: nowhere; in crystal.update (before
\* anything is changed); in the construction or the application of the
\* change of basis (after crystal.update has changed the crystal model in
\* place).
ReindexRaises == {"no", "update", "change_basis"}

\* reindex(reflections, experiments, solution): the crystal model and the
\* miller_index column on exit (both are updated in place), the mask sel,
\* and whether the call raised.
Reindex(miller_index, cr, s, raise_at) ==
    LET op == change_of_basis_op(s.cb_op_inp_best)
        non_integral == apply_results_in_non_integral_indices(op, miller_index)
        sel == sel_mask(miller_index, non_integral)
        reindexed == apply(op, select(miller_index, sel))
        placed == set_selected(miller_index, sel, reindexed)
        zeroed == set_selected_value(placed, [i \in DOMAIN sel |-> ~sel[i]],
                                     <<0, 0, 0>>)
    IN  CASE raise_at = "update" ->
                 [crystal |-> cr, miller_index |-> miller_index,
                  raises |-> TRUE]
          [] raise_at = "change_basis" ->
                 [crystal |-> refined_crystal(s), miller_index |-> miller_index,
                  raises |-> TRUE]
          [] OTHER ->
                 [crystal |-> refined_crystal(s), miller_index |-> zeroed,
                  raises |-> FALSE]

(***************************************************************************)
(* Selector                                                                *)
(***************************************************************************)
Abs(x) == IF x < 0 THEN 0 - x ELSE x

\* str.replace(" ", ""), on a string given as the sequence of its characters
replace_spaces(str) == SelectSeq(str, LAMBDA ch : ch # " ")

Selector_strong(frm, uc_tol, pg, uc, min_ref, min_res) ==
    [obs_pg |-> frm.pointgroup, obs_uc |-> frm.unit_cell,
     obs_res |-> frm.d_min,
     obs_ref |-> Len(SelectSeq(frm.i_over_sigma, LAMBDA i : i >= 5)),
     uc |-> uc, uc_tol |-> uc_tol, pg |-> pg, min_ref |-> min_ref,
     min_res |-> min_res, fail |-> None]

\* Selector.__init__, lines 578-590: the record of the object's fields. An
\* optional setting is <<>> (None) or <<value>>. Cell parameters are
\* integers (tenths), uc_tol is a percentage: delta <= user * uc_tol is
\* delta * 100 <= user * uc_tol.
Selector(frm, uc_tol, pg, uc, min_ref, min_res) ==
    [obs_pg |-> frm.pointgroup, obs_uc |-> frm.unit_cell,
     obs_res |-> frm.d_min, obs_ref |-> Len(frm.i_over_sigma),
     uc |-> uc, uc_tol |-> uc_tol, pg |-> pg, min_ref |-> min_ref,
     min_res |-> min_res, fail |-> None]

delta_check_strict(delta, user, uc_tol) == delta * 100 < user * uc_tol

\* result_filter, lines 609-614: delta <= user_uc[i] * self.uc_tol.
delta_check(delta, user, uc_tol) == delta * 100 <= user * uc_tol

\* result_filter, lines 600-617.
uc_check(self) ==
    IF self.uc # <<>>
    THEN \A i \in 1..6 :
             delta_check(Abs(self.obs_uc[i] - self.uc[1][i]), self.uc[1][i],
                         self.uc_tol)
    ELSE TRUE

ref_check_below(obs_ref, min_ref) == obs_ref < min_ref

\* result_filter, line 620: the count check fails.
ref_check(obs_ref, min_ref) == obs_ref <= min_ref

res_check_unset(self) == self.min_res = <<>> \/ self.obs_res >= self.min_res[1]

\* result_filter, line 621: the resolution check fails.
res_check(self) == self.min_res # <<>> /\ self.obs_res >= self.min_res[1]

pg_check_exact(self) == self.pg # <<>> /\ self.pg[1] # self.obs_pg

\* result_filter, lines 622-625: the point-group check fails.
pg_check(self) ==
    /\ self.pg # <<>>
    /\ replace_spaces(self.pg[1]) # replace_spaces(self.obs_pg)

i_fail_without_uc(self) ==
    \/ ref_check(self.obs_ref, self.min_ref)
    \/ res_check(self)
    \/ pg_check(self)

\* result_filter, lines 619-627.
i_fail(self) ==
    \/ ref_check(self.obs_ref, self.min_ref)
    \/ res_check(self)
    \/ pg_check(self)
    \/ ~uc_check(self)

\* Selector.result_filter, lines 592-634: what it returns.
result_filter(self) == IF i_fail(self) THEN "failed filter" ELSE None

\* Selector.result_filter assigns no field of the object: fail of line 630
\* is a local name.
self_after_result_filter(self) == self

(***************************************************************************)
(* Integrator                                                              *)
(***************************************************************************)
FailureTags ==
    {"failed spotfinding", "failed indexing", "failed integration",
     "failed filter"}

\* The keys of int_results on success.
SuccessKeys ==
    {"sg", "a", "b", "c", "alpha", "beta", "gamma", "wavelength", "distance",
     "beamX", "beamY", "strong", "res", "lres", "mos", "epv", "info", "ok"}

FinalKeys == SuccessKeys \cup {"final"}

\* An entry of the accumulator is <<>> (the key is absent) or <<value>>.
EmptyFinal == [k \in FinalKeys |-> <<>>]

\* The accumulators a caller passes: an empty one, and one that holds the
\* entries of an earlier step.
CallerFinals ==
    {EmptyFinal,
     [EmptyFinal EXCEPT !["info"] = <<"caller's info">>, !["ok"] = <<FALSE>>]}

FinalFilename == "int_image.pickle"

TargetCell == <<780, 780, 370, 900, 900, 900>>

NoFilter ==
    [flag_on |-> FALSE, target_uc_tolerance |-> 0, target_pointgroup |-> <<>>,
     target_unit_cell |-> <<>>, min_reflections |-> 0, min_resolution |-> <<>>]

\* The filter settings of the runs: off; on with no criterion configured;
\* on with every criterion configured.
RunFilters ==
    {NoFilter,
     [NoFilter EXCEPT !.flag_on = TRUE],
     [flag_on |-> TRUE, target_uc_tolerance |-> 5,
      target_pointgroup |-> <<<<"P", "4", "2", "2">>>>,
      target_unit_cell |-> <<TargetCell>>, min_reflections |-> 1,
      min_resolution |-> <<3>>]}

MinSigma == 5

\* The frames write_integration_pickles can construct in a run.
RunFrames ==
    {[pointgroup |-> <<"P", " ", "4", " ", "2", " ", "2">>,
      unit_cell |-> <<790, 775, 372, 900, 900, 900>>, d_min |-> 2,
      i_over_sigma |-> <<9, 2>>],
     [pointgroup |-> <<"P", " ", "4", " ", "2", " ", "2">>,
      unit_cell |-> <<790, 775, 372, 900, 900, 900>>, d_min |-> 2,
      i_over_sigma |-> <<9>>],
     [pointgroup |-> <<"P", " ", "1">>,
      unit_cell |-> <<900, 775, 372, 900, 900, 900>>, d_min |-> 4,
      i_over_sigma |-> <<>>]}

RunParams ==
    [space_group_known : BOOLEAN,       \* phil.indexing.known_symmetry.space_group
     determine_sg_and_reindex : BOOLEAN,
     filter : RunFilters,
     min_sigma : {MinSigma},            \* cctbx_ha14.selection.min_sigma
     final_filename : {FinalFilename},
     final : CallerFinals]

\* e = None of line 383, in the shape of an exception.
NoExc == [src |-> None, classname |-> <<>>, msg |-> <<>>]

\* The length error_message keeps of a message (lines 396, 400).
MsgLimit == 50

\* A message is the sequence of its characters: a short one, one with a
\* newline, one longer than MsgLimit with a newline in it.
Messages ==
    {<<"e", "r", "r">>,
     <<"n", "o", "\n", "f", "i", "t">>,
     [i \in 1..(MsgLimit + 1) |-> IF i = 3 THEN "\n" ELSE "x"]}

\* The exceptions a stage can raise: src is the stage that raised, classname
\* the attribute of line 393 when the exception has one, msg its e[0] and its
\* str(e). The message of a symmetry exception is only printed (line 445).
Exceptions(stage) ==
    IF stage = "symmetry"
    THEN {[src |-> stage, classname |-> <<>>, msg |-> <<"e", "r", "r">>]}
    ELSE [src : {stage}, classname : {<<>>}, msg : Messages]
         \cup {[src |-> stage, classname |-> <<<<"S", "o", "r", "r", "y">>>>,
                 msg |-> <<"e", "r", "r">>]}

\* str(e), and "{}".format(e): str(None) is "None".
Str(exc) == IF exc.src = None THEN <<"N", "o", "n", "e">> ELSE exc.msg

\* str.replace("\n", " ")
replace_newlines(str) ==
    [i \in 1..Len(str) |-> IF str[i] = "\n" THEN " " ELSE str[i]]

\* str[:n]
Head_n(str, n) == SubSeq(str, 1, IF Len(str) < n THEN Len(str) ELSE n)

\* run, lines 393-400 (416-422, 460-466): the message the handler prints.
error_message(exc) ==
    IF exc.classname # <<>>
    THEN exc.classname[1] \o <<":", " ">>
             \o Head_n(replace_newlines(exc.msg), MsgLimit)
    ELSE Head_n(replace_newlines(Str(exc)), MsgLimit)

RunHKLs == {<<1, 0, 0>>, <<1, 1, 0>>}

\* The candidates of the generation engine inside a run (SpecBravais calls
\* refine_bravais_settings on the full set).
RunSolutions ==
    {s \in Solutions(CbOps) :
        s.bravais \in {"mP", "oP"} /\ s.max_angular_difference = 0}

Unset == [crystal |-> NoCrystal, miller_index |-> <<>>]

\* log_entry = ["\n"] of line 381: no summary line yet.
NoLogEntry == [step_id |-> None, err |-> NoExc, text |-> <<>>]

Idle ==
    /\ Lfat = <<>>
    /\ engine = EngineReturns
    /\ solution = <<>>
    /\ m_pc = "idle"
    /\ m_in = Unset
    /\ m_self = None
    /\ m_ret = None

\* The state Integrator.__init__ leaves.
Init ==
    /\ pc = "spotfinding"
    /\ params \in RunParams
    /\ fail = None
    /\ e = NoExc
    /\ calls = <<>>
    /\ raised = {}
    /\ crystal = NoCrystal
    /\ indexed = <<>>
    /\ from_index = Unset
    /\ to_refine = Unset
    /\ frame = <<>>
    /\ final = [params.final EXCEPT !["final"] = <<params.final_filename>>]
    /\ artifact = <<>>
    /\ int_log = FALSE
    /\ log_entry = NoLogEntry
    /\ output = <<>>
    /\ Idle

Raise(stage, tag) ==
    /\ \E exc \in Exceptions(stage) :
           /\ e' = exc
           /\ output' = Append(output, error_message(exc))
    /\ raised' = raised \cup {stage}
    /\ fail' = tag

\* run, lines 384-402: the spot-finding try block.
FindSpots ==
    /\ pc = "spotfinding"
    /\ pc' = "indexing"
    /\ calls' = Append(calls, "find_spots")
    /\ \/ UNCHANGED <<fail, e, raised, output>>
       \/ Raise("spotfinding", "failed spotfinding")
    /\ UNCHANGED <<params, crystal, indexed, from_index, to_refine, frame,
                   final, artifact, int_log, Lfat, engine, solution, m_pc, m_in, m_self, m_ret, log_entry>>

index_guard_always == TRUE

index_guard == fail = None

\* run, lines 404-424: the indexing try block.
Index ==
    /\ pc = "indexing"
    /\ pc' = "symmetry"
    /\ IF index_guard
       THEN /\ calls' = Append(calls, "index")
            /\ \/ /\ crystal' \in IF params.space_group_known
                                  THEN {KnownCrystal} ELSE TriclinicCrystals
                  /\ indexed' \in SeqsUpTo(RunHKLs, MaxRunRefl)
                  /\ from_index' = [crystal |-> crystal',
                                    miller_index |-> indexed']
                  /\ UNCHANGED <<fail, e, raised, output>>
               \/ /\ Raise("indexing", "failed indexing")
                  /\ UNCHANGED <<crystal, indexed, from_index>>
       ELSE UNCHANGED <<calls, crystal, indexed, from_index, fail, e, raised,
                        output>>
    /\ UNCHANGED <<params, to_refine, frame, final, artifact, int_log, Lfat,
                   engine, solution, m_pc, m_in, m_self, m_ret, log_entry>>

symmetry_guard_without_optin ==
    /\ fail = None
    /\ ~params.space_group_known

symmetry_guard ==
    /\ fail = None
    /\ ~params.space_group_known
    /\ params.determine_sg_and_reindex

fail_after_bravais_error_set(f) == "failed reindexing"

\* run, lines 444-445: the except branch of the symmetry try block prints,
\* and leaves self.fail as it is.
fail_after_bravais_error(f) == f

\* Where the symmetry try block can raise outside refine_bravais_settings:
\* nowhere, inside reindex (ReindexRaises), or in the space-group readout of
\* lines 434-435.
SymmetryRaises == ReindexRaises \cup {"readout"}

\* refine_bravais_settings_and_reindex (lines 350-362) followed by the
\* readout: the crystal model and the indices it leaves, the calls it made
\* and whether it raised.
SymmetryStage(cr, mi, eng, L, raise_at) ==
    LET rb == RefineBravaisSettings(cr, eng, L)
        rx == Reindex(mi, rb.crystal, rb.ret[1],
                      IF raise_at \in ReindexRaises THEN raise_at ELSE "no")
    IN  IF rb.raises \/ rb.ret = <<>>
        THEN [crystal |-> rb.crystal, miller_index |-> mi,
              calls |-> <<"refine_bravais_settings">>, solution |-> rb.ret,
              raises |-> rb.raises \/ raise_at = "readout"]
        ELSE [crystal |-> rx.crystal, miller_index |-> rx.miller_index,
              calls |-> <<"refine_bravais_settings", "reindex">>,
              solution |-> rb.ret,
              raises |-> rx.raises \/ raise_at = "readout"]

\* run, lines 426-445: the symmetry try block.
Symmetry ==
    /\ pc = "symmetry"
    /\ pc' = "integration"
    /\ IF symmetry_guard
       THEN \E eng \in EngineOutcomes, raise_at \in SymmetryRaises :
            \E L \in IF eng.raises THEN {<<>>}
                      ELSE SeqsUpTo(RunSolutions, MaxRunCands) :
               LET st == SymmetryStage(crystal, indexed, eng, L, raise_at)
               IN  /\ calls' = calls \o st.calls
                   /\ solution' = st.solution
                   /\ crystal' = st.crystal
                   /\ indexed' = st.miller_index
                   /\ raised' = raised
                          \cup (IF eng.raises THEN {"generation"} ELSE {})
                          \cup (IF st.raises THEN {"symmetry"} ELSE {})
                   /\ IF st.raises
                      THEN /\ \E exc \in Exceptions("symmetry") :
                                  /\ e' = exc
                                  /\ output' = Append(output, Str(exc))
                           /\ fail' = fail_after_bravais_error(fail)
                      ELSE UNCHANGED <<fail, e, output>>
       ELSE UNCHANGED <<calls, solution, crystal, indexed, fail, e, raised,
                        output>>
    /\ UNCHANGED <<params, from_index, to_refine, frame, final, artifact,
                   int_log, Lfat, engine, m_pc, m_in, m_self, m_ret, log_entry>>

integrate_guard_always == TRUE

integrate_guard == fail = None

\* run, lines 447-468: refine and integrate in one try block. The
\* processor's integrate ends in write_integration_pickles (lines 144-156),
\* which constructs the frame and dumps it at phil.output.integration_pickle
\* (write_pickle is True: line 379); line 375 then reads the frame.
RefineIntegrate ==
    /\ pc = "integration"
    /\ pc' = "filter"
    /\ IF integrate_guard
       THEN /\ to_refine' = [crystal |-> crystal, miller_index |-> indexed]
            /\ \/ /\ calls' = Append(calls, "refine")
                  /\ Raise("integration", "failed integration")
                  /\ UNCHANGED <<frame, artifact>>
               \/ /\ calls' = calls \o <<"refine", "integrate">>
                  /\ Raise("integration", "failed integration")
                  /\ UNCHANGED <<frame, artifact>>
               \/ /\ calls' = calls \o <<"refine", "integrate",
                                         "write_integration_pickles">>
                  /\ \E frm \in RunFrames :
                         /\ frame' = <<frm>>
                         /\ artifact' = <<frm>>
                  /\ UNCHANGED <<fail, e, raised, output>>
       ELSE UNCHANGED <<to_refine, calls, frame, artifact, fail, e, raised,
                        output>>
    /\ UNCHANGED <<params, crystal, indexed, from_index, final, int_log, Lfat,
                   engine, solution, m_pc, m_in, m_self, m_ret, log_entry>>

\* The Selector run constructs of a frame and the filter settings (lines
\* 471-478).
SelectorOf(frm, flt) ==
    Selector(frm, flt.target_uc_tolerance, flt.target_pointgroup,
             flt.target_unit_cell, flt.min_reflections, flt.min_resolution)

filter_guard_without_flag == fail = None

filter_guard == fail = None /\ params.filter.flag_on

\* run, lines 470-479: the result filter.
Filter ==
    /\ pc = "filter"
    /\ pc' = "logfile"
    /\ IF filter_guard
       THEN /\ calls' = Append(calls, "result_filter")
            /\ fail' = result_filter(SelectorOf(frame[1], params.filter))
       ELSE UNCHANGED <<calls, fail>>
    /\ UNCHANGED <<params, e, raised, crystal, indexed, from_index, to_refine,
                   frame, final, artifact, int_log, output, Lfat, engine, solution,
                   m_pc, m_in, m_self, m_ret, log_entry>>

\* run, lines 481-484: the log file.
WriteLog ==
    /\ pc = "logfile"
    /\ pc' = "assemble"
    /\ int_log' = TRUE
    /\ UNCHANGED <<params, fail, e, calls, raised, crystal, indexed,
                   from_index, to_refine, frame, final, artifact, output, Lfat, engine,
                   solution, m_pc, m_in, m_self, m_ret, log_entry>>

\* run, lines 493-504: the number of spots with I / sigma >= min_sigma.
strong_spots(frm, min_sigma) ==
    Len(SelectSeq(frm.i_over_sigma, LAMBDA i : i >= min_sigma))

\* run, lines 486-543: int_results merged into self.final.
final_on_success(f, frm, min_sigma) ==
    [k \in FinalKeys |->
        CASE k = "final" -> f[k]
          [] k = "sg" -> <<frm.pointgroup>>
          [] k = "a" -> <<frm.unit_cell[1]>>
          [] k = "b" -> <<frm.unit_cell[2]>>
          [] k = "c" -> <<frm.unit_cell[3]>>
          [] k = "alpha" -> <<frm.unit_cell[4]>>
          [] k = "beta" -> <<frm.unit_cell[5]>>
          [] k = "gamma" -> <<frm.unit_cell[6]>>
          [] k = "strong" -> <<strong_spots(frm, min_sigma)>>
          [] k = "res" -> <<frm.d_min>>
          [] k = "info" -> <<"int_status">>
          [] k = "ok" -> <<TRUE>>
          [] OTHER -> <<"of the frame">>]

final_on_failure_kept(f) == f

\* run, lines 554-567: int_results = {"info": ...} is built and not merged;
\* self.final["final"] = None.
final_on_failure(f) == [f EXCEPT !["final"] = <<None>>]

\* run, lines 546-552: the summary line of a success.
log_entry_on_success ==
    [step_id |-> "DIALS integration:", err |-> NoExc, text |-> <<"int_status">>]

\* run, lines 556-563: the stage name of a failure tag.
step_id(f) ==
    CASE f = "failed spotfinding" -> "SPOTFINDING"
      [] f = "failed indexing" -> "INDEXING"
      [] f = "failed integration" -> "INTEGRATION"
      [] f = "failed filter" -> "FILTER"

\* run, line 564: "{} FAILED - {}".format(step_id, e), with e the name
\* bound last (line 383, or the except clause that ran last); err is that
\* object, text what format writes of it.
log_entry_on_failure(f, exc) ==
    [step_id |-> step_id(f), err |-> exc, text |-> Str(exc)]

\* run, lines 486-571: result assembly and return.
Assemble ==
    /\ pc = "assemble"
    /\ pc' = "done"
    /\ final' = IF fail = None
                THEN final_on_success(final, frame[1], params.min_sigma)
                ELSE final_on_failure(final)
    /\ log_entry' = IF fail = None
                    THEN log_entry_on_success
                    ELSE log_entry_on_failure(fail, e)
    /\ UNCHANGED <<params, fail, e, calls, raised, crystal, indexed,
                   from_index, to_refine, frame, artifact, int_log, output, Lfat,
                   engine, solution, m_pc, m_in, m_self, m_ret>>

Next ==
    \/ FindSpots
    \/ Index
    \/ Symmetry
    \/ RefineIntegrate
    \/ Filter
    \/ WriteLog
    \/ Assemble

Spec == Init /\ [][Next]_vars

(***************************************************************************)
(* Direct calls of the processor's methods.                                *)
(***************************************************************************)
NoRun ==
    /\ pc = "no run"
    /\ params \in {[space_group_known |-> FALSE,
                    determine_sg_and_reindex |-> TRUE, filter |-> NoFilter,
                    min_sigma |-> MinSigma, final_filename |-> FinalFilename,
                    final |-> EmptyFinal]}
    /\ fail = None
    /\ e = NoExc
    /\ calls = <<>>
    /\ raised = {}
    /\ from_index = Unset
    /\ to_refine = Unset
    /\ frame = <<>>
    /\ final = EmptyFinal
    /\ artifact = <<>>
    /\ int_log = FALSE
    /\ log_entry = NoLogEntry
    /\ output = <<>>

run_vars ==
    <<pc, params, fail, e, calls, raised, from_index, to_refine, frame, final,
      artifact, int_log, log_entry, output>>

\* refine_bravais_settings is about to be called: any triclinic crystal
\* model, any way the engine ends, any candidate list when it returns.
InitBravais ==
    /\ NoRun
    /\ m_pc = "call"
    /\ crystal \in TriclinicCrystals
    /\ indexed = <<>>
    /\ engine \in EngineOutcomes
    /\ Lfat \in IF engine.raises THEN {<<>>}
                ELSE SeqsUpTo(Solutions({"a,b,c"}), MaxCands)
    /\ solution = <<>>
    /\ m_in = [crystal |-> crystal, miller_index |-> indexed]
    /\ m_self = None
    /\ m_ret = None

\* IOTADialsProcessor.refine_bravais_settings, lines 39-111.
CallRefineBravaisSettings ==
    /\ m_pc = "call"
    /\ LET rb == RefineBravaisSettings(crystal, engine, Lfat)
       IN  /\ m_pc' = IF rb.raises THEN "raised" ELSE "returned"
           /\ solution' = rb.ret
           /\ crystal' = rb.crystal
    /\ UNCHANGED <<indexed, Lfat, engine, m_in, m_self, m_ret>>
    /\ UNCHANGED run_vars

SpecBravais == InitBravais /\ [][CallRefineBravaisSettings]_vars

\* Candidates whose family may be one the table of lines 81-96 has no entry
\* for: mI, a body-centred monoclinic setting.
WideSolutions ==
    [bravais : {"aP", "oP", "mI"}, recommended : BOOLEAN,
     max_angular_difference : AngDiffs, cb_op_inp_best : {"a,b,c"}]

\* refine_bravais_settings is about to be called on a candidate list that
\* may hold families outside the table.
InitBravaisWide ==
    /\ NoRun
    /\ m_pc = "call"
    /\ crystal \in TriclinicCrystals
    /\ indexed = <<>>
    /\ engine \in EngineOutcomes
    /\ Lfat \in IF engine.raises THEN {<<>>}
                ELSE SeqsUpTo(WideSolutions, MaxCands)
    /\ solution = <<>>
    /\ m_in = [crystal |-> crystal, miller_index |-> indexed]
    /\ m_self = None
    /\ m_ret = None

SpecBravaisWide == InitBravaisWide /\ [][CallRefineBravaisSettings]_vars

HKLs == {<<h, k, l>> : h \in -1..1, k \in -1..1, l \in -1..1}

\* reindex is about to be called: any reflection list, a solution with any
\* change of basis.
InitReindex ==
    /\ NoRun
    /\ m_pc = "call"
    /\ crystal \in {[lattice |-> "aP", cell |-> "indexed 1"]}
    /\ indexed \in SeqsUpTo(HKLs, MaxRefl)
    /\ engine = EngineReturns
    /\ Lfat = <<>>
    /\ solution \in {<<s>> : s \in {t \in Solutions(CbOps) :
                                       /\ t.bravais = "oP"
                                       /\ t.recommended
                                       /\ t.max_angular_difference = 0}}
    /\ m_in = [crystal |-> crystal, miller_index |-> indexed]
    /\ m_self = None
    /\ m_ret = None

\* IOTADialsProcessor.reindex, lines 113-142.
CallReindex ==
    /\ m_pc = "call"
    /\ \E raise_at \in ReindexRaises :
           LET rx == Reindex(indexed, crystal, solution[1], raise_at)
           IN  /\ m_pc' = IF rx.raises THEN "raised" ELSE "returned"
               /\ crystal' = rx.crystal
               /\ indexed' = rx.miller_index
    /\ UNCHANGED <<Lfat, engine, solution, m_in, m_self, m_ret>>
    /\ UNCHANGED run_vars

SpecReindex == InitReindex /\ [][CallReindex]_vars

\* The largest number of observations of a frame given to a Selector.
MaxObs == 3

\* The largest deviation (tenths) the tolerance 5 admits of a parameter.
Admitted(i) == (TargetCell[i] * 5) \div 100

\* Observed cells: the target itself, the cells of the acceptance example
\* (a within, a far outside), and for every parameter a cell at the edge of
\* the tolerance 5 and one just beyond it, above and below the target.
FilterCells ==
    {TargetCell, <<790, 775, 372, 900, 900, 900>>,
     <<900, 775, 372, 900, 900, 900>>}
    \cup {[TargetCell EXCEPT ![i] = @ + d * (Admitted(i) + k)] :
              i \in 1..6, d \in {-1, 1}, k \in {0, 1}}

\* Observed point groups: with and without spaces, with a tab, with a
\* newline, and another group.
FilterPointgroups ==
    {<<"P", "4", "2", "2">>, <<"P", " ", "4", " ", "2", " ", "2">>,
     <<"P", "\t", "4", "2", "2">>, <<"P", "4", "2", "2", "\n">>,
     <<"P", "1">>}

FilterFrames ==
    [pointgroup : FilterPointgroups, unit_cell : FilterCells,
     d_min : {2, 3, 4},
     i_over_sigma : {[i \in 1..n |-> 9] : n \in 0..MaxObs}]

\* The settings a Selector is constructed with (its defaults: line 578).
FilterSettings ==
    [flag_on : {TRUE}, target_uc_tolerance : {0, 5},
     target_pointgroup : {<<>>, <<<<"P", "4", "2", "2">>>>,
                          <<<<"P", " ", "4", "2", "2">>>>},
     target_unit_cell : {<<>>, <<TargetCell>>},
     min_reflections : 0..MaxObs, min_resolution : {<<>>, <<3>>}]

\* A Selector has been constructed and result_filter is about to be called.
InitFilter ==
    /\ NoRun
    /\ m_pc = "call"
    /\ crystal = NoCrystal
    /\ indexed = <<>>
    /\ engine = EngineReturns
    /\ Lfat = <<>>
    /\ solution = <<>>
    /\ m_in \in [frame : FilterFrames, filter : FilterSettings]
    /\ m_self = SelectorOf(m_in.frame, m_in.filter)
    /\ m_ret = None

\* Selector.result_filter, lines 592-634.
CallResultFilter ==
    /\ m_pc = "call"
    /\ m_pc' = "returned"
    /\ m_ret' = result_filter(m_self)
    /\ m_self' = self_after_result_filter(m_self)
    /\ UNCHANGED <<crystal, indexed, Lfat, engine, solution, m_in>>
    /\ UNCHANGED run_vars

SpecFilter == InitFilter /\ [][CallResultFilter]_vars

(***************************************************************************)
(* Triage                                                                  *)
(***************************************************************************)
\* "{}".format(n) of a count: the sequence of its decimal digits.
RECURSIVE Decimal(_)
Decimal(n) ==
    LET digit == <<"0", "1", "2", "3", "4", "5", "6", "7", "8", "9">>
    IN  IF n < 10 THEN <<digit[n + 1]>>
        ELSE Decimal(n \div 10) \o <<digit[(n % 10) + 1]>>

peaks_check_above(n, min_Bragg_peaks) == n > min_Bragg_peaks

\* triage_image, line 213.
peaks_check(n, min_Bragg_peaks) == n >= min_Bragg_peaks

\* Triage.triage_image, lines 207-223: the pair it returns; found is how
\* find_spots ended. No path leaves the method by an exception.
triage_image(self, found) ==
    IF found.raises
    THEN [status |-> "failed triage",
          log_info |-> <<"REJECTED! SPOT-FINDING ERROR!">>, raises |-> FALSE]
    ELSE IF peaks_check(found.len, self.min_Bragg_peaks)
         THEN [status |-> None,
               log_info |-> <<"ACCEPTED! ">> \o Decimal(found.len)
                                \o <<" observed reflections.">>,
               raises |-> FALSE]
         ELSE [status |-> "failed triage",
               log_info |-> <<"REJECTED! ">> \o Decimal(found.len)
                                \o <<" observed reflections.">>,
               raises |-> FALSE]

\* The largest number of spots find_spots returns, next to the 150 of the
\* documented example.
MaxSpots == 10

\* How find_spots can end: it raises, or it returns len spots.
FindSpotsOutcomes ==
    {[raises |-> TRUE, len |-> 0]}
    \cup [raises : {FALSE}, len : 0..MaxSpots \cup {150}]

\* A Triage has been constructed and triage_image is about to be called.
InitTriage ==
    /\ NoRun
    /\ m_pc = "call"
    /\ crystal = NoCrystal
    /\ indexed = <<>>
    /\ engine = EngineReturns
    /\ Lfat = <<>>
    /\ solution = <<>>
    /\ m_in \in FindSpotsOutcomes
    /\ m_self \in [min_Bragg_peaks : 0..MaxSpots]
    /\ m_ret = None

\* Triage.triage_image, lines 207-223.
CallTriageImage ==
    /\ m_pc = "call"
    /\ LET t == triage_image(m_self, m_in)
       IN  /\ m_pc' = IF t.raises THEN "raised" ELSE "returned"
           /\ m_ret' = <<t.status, t.log_info>>
    /\ UNCHANGED <<crystal, indexed, Lfat, engine, solution, m_in, m_self>>
    /\ UNCHANGED run_vars

SpecTriage == InitTriage /\ [][CallTriageImage]_vars

(***************************************************************************)
(* Properties of Integrator.run (Spec).                                    *)
(***************************************************************************)
Called(method) == method \in Range(calls)

LastCall == calls[Len(calls)]

\* C1: once spot-finding, indexing or refinement+integration has raised, no
\* later stage is invoked in the run: the calls made stop at the stage that
\* raised and the status is that stage's tag; when spot-finding raises,
\* find_spots is the only call of the run and the status is exactly
\* 'failed spotfinding'.
C1_ShortCircuit ==
    /\ "spotfinding" \in raised =>
           /\ calls = <<"find_spots">>
           /\ fail = "failed spotfinding"
    /\ "indexing" \in raised =>
           /\ calls = <<"find_spots", "index">>
           /\ fail = "failed indexing"
    /\ "integration" \in raised =>
           /\ LastCall \in {"refine", "integrate"}
           /\ fail = "failed integration"

C1_Witness ==
    /\ pc = "done"
    /\ "spotfinding" \in raised
    /\ ~params.space_group_known
    /\ params.determine_sg_and_reindex
    /\ params.filter.flag_on

\* C2: an exception raised inside the symmetry stage (in the candidate
\* generation, where refine_bravais_settings catches it, or anywhere else,
\* where run catches it) never sets the failure status: the status is still
\* None when the stage is left, and refine, followed by integrate unless
\* refine itself raises, is invoked in the same run.
C2_SymmetryErrorNotFatal ==
    raised \cap {"symmetry", "generation"} # {} =>
        /\ pc = "integration" => fail = None
        /\ pc \in {"filter", "logfile", "assemble", "done"} =>
               /\ Called("refine")
               /\ \/ Called("integrate")
                  \/ LastCall = "refine" /\ "integration" \in raised
               /\ fail \in {None, "failed integration", "failed filter"}

C2_Witness ==
    /\ pc = "done"
    /\ "symmetry" \in raised
    /\ Called("reindex")
    /\ Called("integrate")

\* C3: when the symmetry stage ends with a swallowed exception, the crystal
\* model and the Miller indices handed to refinement are those index()
\* produced.
C3_KeepsCurrentSymmetry ==
    ("symmetry" \in raised /\ Called("refine")) => to_refine = from_index

\* C4: when run returns, the accumulator has one of two shapes. Success:
\* status None, 'ok' True, 'final' the caller's non-null path, every success
\* field present. Failure: status a failure tag, 'final' None, and every
\* success field, 'ok' included, as the caller passed it.
C4_SuccessOrFailureShape ==
    pc = "done" =>
        \/ /\ fail = None
           /\ final["ok"] = <<TRUE>>
           /\ final["final"] = <<params.final_filename>>
           /\ params.final_filename # None
           /\ \A k \in SuccessKeys : final[k] # <<>>
        \/ /\ fail \in FailureTags
           /\ final["final"] = <<None>>
           /\ \A k \in SuccessKeys : final[k] = params.final[k]

C4_Witness ==
    /\ pc = "done"
    /\ fail = "failed filter"
    /\ frame # <<>>
    /\ params.final["info"] # <<>>

\* C5: when run returns, an artifact is stored at the output path if and
\* only if the returned status is None.
C5_ArtifactIffSuccess ==
    pc = "done" => (artifact # <<>> <=> fail = None)

\* C6: on a failed run the accumulator gains the status line 'info' and a
\* null 'final', and nothing else.
C6_FailureGainsStatusLine ==
    (pc = "done" /\ fail # None) =>
        /\ final["info"] # <<>>
        /\ final["info"] # params.final["info"]
        /\ final["final"] = <<None>>
        /\ \A k \in SuccessKeys \ {"info"} : final[k] = params.final[k]

(***************************************************************************)
(* Properties of refine_bravais_settings (SpecBravais).                    *)
(***************************************************************************)
RecommendedAt == {i \in DOMAIN Lfat : Lfat[i].recommended}

\* C7: when the engine returns a list with a recommended candidate,
\* refine_bravais_settings returns a solution whose family is a family of a
\* recommended candidate and has the greatest space-group number among
\* them, whatever the order of the list.
C7_HighestSymmetryFamily ==
    (m_pc # "call" /\ ~engine.raises /\ RecommendedAt # {}) =>
        /\ m_pc = "returned"
        /\ solution # <<>>
        /\ \E i \in RecommendedAt : Lfat[i].bravais = solution[1].bravais
        /\ \A i \in RecommendedAt :
               lattice_to_sg_number[Lfat[i].bravais]
                   <= lattice_to_sg_number[solution[1].bravais]

C7_Witness ==
    /\ m_pc = "returned"
    /\ Len(Lfat) = 3
    /\ RecommendedAt = {1, 2, 3}
    /\ Lfat[1].bravais = "mP"
    /\ {Lfat[i].bravais : i \in DOMAIN Lfat} = {"aP", "mP", "oP"}
    /\ solution # <<>>
    /\ solution[1].bravais = "oP"

\* C8: the solution returned is a recommended candidate, and of the
\* recommended candidates of its family it has the smallest maximum angular
\* difference.
C8_ReturnsRecommendedClosest ==
    (m_pc = "returned" /\ solution # <<>>) =>
        /\ solution[1].recommended
        /\ \A i \in RecommendedAt :
               Lfat[i].bravais = solution[1].bravais =>
                   solution[1].max_angular_difference
                       <= Lfat[i].max_angular_difference

\* C9: when the generation engine raises, refine_bravais_settings returns
\* None without raising and the crystal model is the one passed in,
\* whatever state the engine left it in.
C9_TriclinicReset ==
    (m_pc # "call" /\ engine.raises) =>
        /\ m_pc = "returned"
        /\ solution = <<>>
        /\ crystal = m_in.crystal

C9_Witness ==
    /\ m_pc = "returned"
    /\ engine.raises
    /\ engine.leaves # m_in.crystal

\* C21 as stated: refine_bravais_settings never raises: it returns one
\* candidate of the list or None, and None when recommended candidates exist
\* and none of their families is in the 14-entry table.
C21_NeverRaises ==
    m_pc # "call" =>
        /\ m_pc = "returned"
        /\ solution = <<>> \/ solution[1] \in Range(Lfat)
        /\ (/\ RecommendedAt # {}
            /\ \A i \in RecommendedAt :
                   Lfat[i].bravais \notin DOMAIN lattice_to_sg_number)
              => solution = <<>>

(***************************************************************************)
(* Properties of reindex (SpecReindex).                                    *)
(***************************************************************************)
\* C10: after reindex returns, the list has its original length; a
\* reflection whose transformed index is integral carries exactly that
\* index, any other carries (0,0,0); and the reflections zeroed plus the
\* reflections retained are all the original ones.
C10_ReindexIntegralOrZeroed ==
    m_pc = "returned" =>
        LET op == change_of_basis_op(solution[1].cb_op_inp_best)
            old == m_in.miller_index
            retained ==
                {i \in DOMAIN indexed \cap DOMAIN old :
                    /\ Integral(op, old[i])
                    /\ \A r \in 1..3 :
                           indexed[i][r] * op.den = Numerators(op, old[i])[r]}
            dropped ==
                {i \in DOMAIN indexed \cap DOMAIN old :
                    ~Integral(op, old[i]) /\ indexed[i] = <<0, 0, 0>>}
        IN  /\ DOMAIN indexed = DOMAIN old
            /\ \A i \in DOMAIN old : i \in retained \cup dropped
            /\ Cardinality(dropped) + Cardinality(retained) = Len(old)

C10_Witness ==
    /\ m_pc = "returned"
    /\ LET op == change_of_basis_op(solution[1].cb_op_inp_best)
           old == m_in.miller_index
       IN  /\ \E i \in DOMAIN old : ~Integral(op, old[i])
           /\ \E i \in DOMAIN old :
                  Integral(op, old[i]) /\ indexed[i] # old[i]

\* The three stages whose exception is fatal.
FatalTags == {"failed spotfinding", "failed indexing", "failed integration"}

\* C14 as stated: the error message run returns in its log text after a
\* spot-finding, indexing or integration failure has at most MsgLimit
\* characters and no newline.
C14_SurfacedMessageTruncated ==
    (pc = "done" /\ fail \in FatalTags) =>
        /\ Len(log_entry.text) <= MsgLimit
        /\ \A i \in 1..Len(log_entry.text) : log_entry.text[i] # "\n"

\* C15: whatever the four stages and the filter do, run ends by returning
\* its triple: the status is None or one of the four failure tags, the
\* accumulator and the log text are there, no exception of a stage leaves
\* run, and the log file has been written.
C15_RunAlwaysReturns ==
    /\ pc = "done" \/ ENABLED Next
    /\ pc \in {"spotfinding", "indexing", "symmetry", "integration", "filter",
               "logfile", "assemble", "done"}
    /\ fail \in {None} \cup FailureTags
    /\ pc = "done" =>
          /\ int_log
          /\ DOMAIN final = FinalKeys
          /\ log_entry # NoLogEntry

\* The symmetry stage raised, integration raised after it, and run returned.
C15_Witness ==
    /\ pc = "done"
    /\ {"symmetry", "integration"} \subseteq raised
    /\ fail = "failed integration"
    /\ int_log

\* The tag of the first stage of the run that failed: the stages that
\* raised are in raised, and the filter failed when it was called on a frame
\* it rejects.
FirstFailed ==
    CASE "spotfinding" \in raised -> "failed spotfinding"
      [] "indexing" \in raised -> "failed indexing"
      [] "integration" \in raised -> "failed integration"
      [] OTHER ->
            IF /\ Called("result_filter")
               /\ result_filter(SelectorOf(frame[1], params.filter)) # None
            THEN "failed filter" ELSE None

\* C17: the failure status starts as None, is given a failure tag at most
\* once and is never cleared or replaced after that; the status run returns
\* is the tag of the first stage that failed.
C17_StatusOnlyMovesForward ==
    /\ pc = "spotfinding" => fail = None
    /\ [][/\ fail # None => fail' = fail
          /\ fail' # fail => fail' \in FailureTags]_vars
    /\ [](pc = "done" => fail = FirstFailed)

\* Indexing failed and the filter, switched on, was passed by.
C17_Witness ==
    /\ pc = "done"
    /\ fail = "failed indexing"
    /\ params.filter.flag_on
    /\ ~Called("result_filter")

\* The stage a failure tag belongs to.
StageOf(f) ==
    CASE f = "failed spotfinding" -> "spotfinding"
      [] f = "failed indexing" -> "indexing"
      [] f = "failed integration" -> "integration"
      [] f = "failed filter" -> "filter"

\* C18 as stated: the failure line of the log names the stage that failed
\* and the error of that same stage, never an error raised by another
\* stage.
C18_FailureLineOfSameStage ==
    (pc = "done" /\ fail # None) =>
        /\ log_entry.step_id = step_id(fail)
        /\ log_entry.err.src \in {StageOf(fail), None}

\* The frame of the run passes every criterion of the filter but the count.
OtherCriteriaPass ==
    result_filter(SelectorOf(frame[1],
                             [params.filter EXCEPT !.min_reflections = -1]))
        = None

C23_SymmetryAndReindexGuards ==
    pc \notin {"spotfinding", "indexing", "symmetry"} =>
        /\ Called("refine_bravais_settings")
              <=> /\ raised \cap {"spotfinding", "indexing"} = {}
                  /\ ~params.space_group_known
                  /\ params.determine_sg_and_reindex
        /\ Called("reindex")
              <=> (Called("refine_bravais_settings") /\ solution # <<>>)
        /\ solution = <<>>
              => /\ crystal = from_index.crystal
                 /\ indexed = from_index.miller_index

\* The engine raised inside refine_bravais_settings: None came back and
\* reindex was not called.
C23_Witness ==
    /\ pc = "done"
    /\ Called("refine_bravais_settings")
    /\ "generation" \in raised
    /\ solution = <<>>
    /\ ~Called("reindex")

\* C24: the result filter is called exactly when no stage failed and
\* filter.flag_on is set; when it is called and rejects, the status is
\* "failed filter"; with filtering off a run whose stages all succeed
\* returns success, whatever the frame.
C24_FilterGuard ==
    pc \in {"logfile", "assemble", "done"} =>
        /\ Called("result_filter")
              <=> /\ raised \cap {"spotfinding", "indexing", "integration"}
                         = {}
                  /\ params.filter.flag_on
        /\ (/\ Called("result_filter")
            /\ result_filter(SelectorOf(frame[1], params.filter)) # None)
              => fail = "failed filter"
        /\ (/\ ~params.filter.flag_on
            /\ raised \cap {"spotfinding", "indexing", "integration"} = {})
              => fail = None

\* Filtering is off and a frame without a reflection, which every filter
\* rejects, is a success.
C24_Witness ==
    /\ pc = "done"
    /\ ~params.filter.flag_on
    /\ fail = None
    /\ frame[1].i_over_sigma = <<>>

(***************************************************************************)
(* Properties of Selector.result_filter (SpecFilter).                      *)
(***************************************************************************)
Returned == m_pc = "returned"

Rejected == m_ret = "failed filter"

Accepted == m_ret = None

\* The unit-cell criterion as the documentation states it, on the arguments
\* of the call.
CellWithin ==
    \/ m_in.filter.target_unit_cell = <<>>
    \/ \A i \in 1..6 :
           Abs(m_in.frame.unit_cell[i] - m_in.filter.target_unit_cell[1][i])
                   * 100
               <= m_in.filter.target_unit_cell[1][i]
                      * m_in.filter.target_uc_tolerance

CountAbove == Len(m_in.frame.i_over_sigma) > m_in.filter.min_reflections

ResolutionBelow ==
    \/ m_in.filter.min_resolution = <<>>
    \/ m_in.frame.d_min < m_in.filter.min_resolution[1]

NoSpaces(str) == SelectSeq(str, LAMBDA ch : ch # " ")

NoWhitespace(str) == SelectSeq(str, LAMBDA ch : ch \notin {" ", "\t", "\n"})

PointgroupSame ==
    \/ m_in.filter.target_pointgroup = <<>>
    \/ NoSpaces(m_in.filter.target_pointgroup[1])
           = NoSpaces(m_in.frame.pointgroup)

\* C11: result_filter returns "failed filter" exactly when at least one of
\* the four checks (unit cell, reflection count, resolution, point group)
\* fails and None exactly when all four pass; a configured minimum
\* resolution rejects exactly when the observed limit is at or above it; the
\* call leaves the Selector as it was constructed.
C11_RejectsIffACheckFails ==
    Returned =>
        /\ Rejected <=> ~(CellWithin /\ CountAbove /\ ResolutionBelow
                              /\ PointgroupSame)
        /\ Accepted <=> (CellWithin /\ CountAbove /\ ResolutionBelow
                             /\ PointgroupSame)
        /\ (m_in.filter.min_resolution # <<>> /\ CellWithin /\ CountAbove
                 /\ PointgroupSame)
               => (Rejected
                      <=> m_in.frame.d_min >= m_in.filter.min_resolution[1])
        /\ m_self = SelectorOf(m_in.frame, m_in.filter)

\* The cell check alone fails, every criterion being configured.
C11_Witness ==
    /\ Returned
    /\ Rejected
    /\ ~CellWithin
    /\ CountAbove /\ ResolutionBelow /\ PointgroupSame
    /\ m_in.filter.min_resolution # <<>>
    /\ m_in.filter.target_pointgroup # <<>>

ExampleSettings ==
    /\ m_in.filter.target_unit_cell = <<TargetCell>>
    /\ m_in.filter.target_uc_tolerance = 5

\* C12: the unit-cell check passes exactly when each of the six parameters
\* is within target * tolerance of the target. With the target (78.0, 78.0,
\* 37.0, 90, 90, 90) and the tolerance 0.05 the cell (79.0, 77.5, 37.2, 90,
\* 90, 90) is accepted and one with a = 90.0 is rejected; with the tolerance
\* 0 only the target itself passes, and the target itself passes with any
\* tolerance.
C12_CellWithinTolerance ==
    (Returned /\ CountAbove /\ ResolutionBelow /\ PointgroupSame) =>
        /\ Accepted <=> CellWithin
        /\ (ExampleSettings
               /\ m_in.frame.unit_cell = <<790, 775, 372, 900, 900, 900>>)
              => Accepted
        /\ (ExampleSettings /\ m_in.frame.unit_cell[1] = 900) => Rejected
        /\ (m_in.filter.target_unit_cell # <<>>
               /\ m_in.filter.target_uc_tolerance = 0)
              => (Accepted
                     <=> m_in.frame.unit_cell
                             = m_in.filter.target_unit_cell[1])
        /\ m_in.filter.target_unit_cell = <<m_in.frame.unit_cell>>
              => Accepted

\* A cell at the very edge of the tolerance is accepted.
C12_Witness ==
    /\ Returned
    /\ Accepted
    /\ ExampleSettings
    /\ m_in.frame.unit_cell = [TargetCell EXCEPT ![1] = @ + Admitted(1)]

\* C13: the count check is strict: it rejects exactly when the count is at
\* or below the minimum, so a count equal to the minimum is rejected and
\* minimum + 1 is accepted.
C13_CountStrictlyAbove ==
    (Returned /\ CellWithin /\ ResolutionBelow /\ PointgroupSame) =>
        /\ Rejected
              <=> Len(m_in.frame.i_over_sigma) <= m_in.filter.min_reflections
        /\ Len(m_in.frame.i_over_sigma) = m_in.filter.min_reflections
              => Rejected
        /\ Len(m_in.frame.i_over_sigma) = m_in.filter.min_reflections + 1
              => Accepted

\* A count equal to a minimum above the default is rejected for that alone.
C13_Witness ==
    /\ Returned
    /\ Rejected
    /\ CellWithin /\ ResolutionBelow /\ PointgroupSame
    /\ m_in.filter.min_reflections > 0
    /\ Len(m_in.frame.i_over_sigma) = m_in.filter.min_reflections

NothingConfigured ==
    /\ m_in.filter.target_unit_cell = <<>>
    /\ m_in.filter.target_pointgroup = <<>>
    /\ m_in.filter.min_resolution = <<>>
    /\ m_in.filter.min_reflections = 0

\* C19 as stated: with no criterion configured (the minimum count at its
\* default 0) result_filter accepts every result, one with zero
\* reflections included.
C19_AcceptsEverythingUnconfigured == (Returned /\ NothingConfigured) => Accepted

\* C19: a unit cell, point group or resolution that is not configured never
\* causes a rejection; the count check is always made, so with nothing
\* configured result_filter accepts exactly the results with at least one
\* reflection.
C19_UnconfiguredAcceptsNonEmpty ==
    Returned =>
        /\ NothingConfigured
              => (Accepted <=> Len(m_in.frame.i_over_sigma) >= 1)
        /\ (m_in.filter.min_resolution = <<>> /\ CellWithin /\ CountAbove
               /\ PointgroupSame) => Accepted
        /\ (m_in.filter.target_unit_cell = <<>> /\ ResolutionBelow
               /\ CountAbove /\ PointgroupSame) => Accepted
        /\ (m_in.filter.target_pointgroup = <<>> /\ ResolutionBelow
               /\ CountAbove /\ CellWithin) => Accepted

\* Nothing is configured and a result far from every configurable target
\* is accepted.
C19_Witness ==
    /\ Returned
    /\ NothingConfigured
    /\ Accepted
    /\ m_in.frame.pointgroup = <<"P", "1">>
    /\ m_in.frame.d_min = 4
    /\ m_in.frame.unit_cell[1] = 900

PointgroupConfigured ==
    /\ Returned
    /\ m_in.filter.target_pointgroup # <<>>
    /\ CellWithin /\ CountAbove /\ ResolutionBelow

\* C20 as stated: the point-group check passes exactly when the two
\* strings are equal after all whitespace (spaces, tabs, newlines) has been
\* removed from both.
C20_EqualUpToWhitespace ==
    PointgroupConfigured =>
        (Accepted <=> NoWhitespace(m_in.filter.target_pointgroup[1])
                          = NoWhitespace(m_in.frame.pointgroup))

\* C20: the point-group check passes exactly when the two strings are equal
\* after every space character has been removed from both; strings that
\* differ only in spaces are never rejected, a tab or a newline is compared
\* as any other character.
C20_EqualUpToSpaces ==
    PointgroupConfigured =>
        (Accepted <=> NoSpaces(m_in.filter.target_pointgroup[1])
                          = NoSpaces(m_in.frame.pointgroup))

\* Target and observed group differ in their spaces and are accepted.
C20_Witness ==
    /\ PointgroupConfigured
    /\ Accepted
    /\ m_in.filter.target_pointgroup[1] # m_in.frame.pointgroup
    /\ m_in.filter.target_pointgroup[1] = <<"P", " ", "4", "2", "2">>

(***************************************************************************)
(* Properties of Triage.triage_image (SpecTriage).                         *)
(***************************************************************************)
\* sub is a run of consecutive elements of str.
Contains(str, sub) ==
    \E i \in 0..(Len(str) - Len(sub)) : SubSeq(str, i + 1, i + Len(sub)) = sub

====
